---- MODULE Spec2Model ----
(***************************************************************************)
(* PR & Payment Tracker (src/iom_tracker.py): the status workflow of       *)
(* purchase requests, payments, DSA payments, operational advances and     *)
(* liquidations over one SQLite store, with the status_history ledger.     *)
(*                                                                         *)
(* Every user interaction re-runs the script: line 22 opens a fresh        *)
(* connection, at most one button handler runs, and the handler's          *)
(* conn.commit() calls publish its writes.  A handler is one action.       *)
(***************************************************************************)
EXTENDS Integers, Sequences, FiniteSets, TLC

\* ---------------------------------------------------------------- bounds
\* Rows ever inserted into the entity and user tables, all tables together
\* (the default admin is one of them).
MaxRows == 4
\* A handler that writes the ledger starts only while it is shorter than this.
MaxHist == 3
\* PR lines of one submission (the form allows 1..10).
MaxLines == 2
\* Seconds that pass while the store is watched.
MaxClock == 1

\* ------------------------------------------------------------- constants
\* SQL NULL / Python None in a status or user column.
NULL == "NULL"
\* payment_tracking.pr_id of a payment without a linked PR: falsy at line 383.
NoPr == 0

PRStatuses == {"Submitted", "In Process", "Completed"}
PaymentStatuses == {"Pending", "In Process", "Completed"}
DSAStatuses == {"Pending", "In Process", "Completed", "Paid"}
OAStatuses == {"Pending", "In Process", "Completed", "Paid"}
\* Liquidation select boxes that offer the statuses of a PR.
LiquidationStatusesOfPR == {"Submitted", "In Process", "Completed"}
LiquidationStatuses == {"Pending", "In Process", "Completed", "Paid"}

\* Free-text vendor names of the DSA form.
VendorNames == {"ACME"}

Tables ==
    {"pr_tracking", "pr_wbls", "payment_tracking", "dsa_payments",
     "operational_advances", "operational_liquidations", "users"}

VARIABLES
    db,       \* the committed content of pr_system.db
    conn,     \* what the connection of the latest script run sees (db plus its uncommitted writes)
    session,  \* st.session_state["user"] and ["role"] of the browser session
    cookies,  \* the browser's cookies "user" and "role" (EncryptedCookieManager)
    CURRENT_TIMESTAMP,  \* the store's clock, in seconds
    last      \* the handler that ran in the latest script run, its inputs and whether it completed

vars == <<db, conn, session, cookies, CURRENT_TIMESTAMP, last>>

\* ------------------------------------------------------- SQL statements
Max(S) == CHOOSE x \in S : \A y \in S : y <= x
Min(S) == CHOOSE x \in S : \A y \in S : x <= y

Ids(d, t) == DOMAIN d[t]

\* INSERT INTO t: the row gets the next AUTOINCREMENT id (sqlite_sequence).
Insert(d, t, row) ==
    LET id == d.seq[t] + 1
    IN  [d EXCEPT ![t] = @ @@ (id :> row), !.seq[t] = id]

\* c.lastrowid after an INSERT INTO t.
LastRowId(d, t) == d.seq[t]

\* UPDATE t SET status=s WHERE <the rows ids>.
SetStatus(d, t, ids, s) ==
    [d EXCEPT ![t] = [i \in DOMAIN @ |->
        IF i \in ids THEN [@[i] EXCEPT !.status = s] ELSE @[i]]]

\* DELETE FROM t WHERE <the rows ids> (no foreign key involved).
DeleteRows(d, t, ids) ==
    [d EXCEPT ![t] = [i \in (DOMAIN @) \ ids |-> @[i]]]

\* The VALUES tuple of an INSERT INTO status_history, and the column default
\* changed_at (line 121).
HistoryRow(ty, rid, old, new, by) ==
    [record_type |-> ty, record_id |-> rid, old_status |-> old,
     new_status |-> new, changed_by |-> by, changed_at |-> CURRENT_TIMESTAMP]

\* A ledger that drops the entries that change nothing.
InsertHistoryChanged(d, ty, rid, old, new, by) ==
    IF old = new THEN d
    ELSE [d EXCEPT !.status_history = Append(@, HistoryRow(ty, rid, old, new, by))]

InsertHistory(d, ty, rid, old, new, by) ==
    [d EXCEPT !.status_history = Append(@, HistoryRow(ty, rid, old, new, by))]

\* A lookup that never notices a missing row.
RecordNeverMissing(d, t, id) == FALSE

\* SELECT status FROM t WHERE id=? ... fetchone(): the row is missing.
RecordMissing(d, t, id) == id \notin Ids(d, t)

StatusOf(d, t, id) == IF id \in Ids(d, t) THEN d[t][id].status ELSE NULL

\* A PR deletion without the foreign keys' ON DELETE CASCADE.
DeletePRRowOnly(d, id) == DeleteRows(d, "pr_tracking", {id})

\* A PR deletion that takes the PR's ledger entries with it.
DeletePRRowWithHistory(d, id) ==
    LET d1 == DeleteRows(d, "pr_tracking", {id})
        d2 == DeleteRows(d1, "pr_wbls",
                  {w \in Ids(d1, "pr_wbls") : d1.pr_wbls[w].pr_id = id})
        d3 == DeleteRows(d2, "payment_tracking",
                  {p \in Ids(d2, "payment_tracking") : d2.payment_tracking[p].pr_id = id})
    IN  [d3 EXCEPT !.status_history =
            SelectSeq(@, LAMBDA h : ~(h.record_type = "PR" /\ h.record_id = ToString(id)))]

\* DELETE FROM pr_tracking WHERE id=?, with the ON DELETE CASCADE of pr_wbls
\* and payment_tracking (PRAGMA foreign_keys = ON).
DeletePRRow(d, id) ==
    LET d1 == DeleteRows(d, "pr_tracking", {id})
        d2 == DeleteRows(d1, "pr_wbls",
                  {w \in Ids(d1, "pr_wbls") : d1.pr_wbls[w].pr_id = id})
    IN  DeleteRows(d2, "payment_tracking",
            {p \in Ids(d2, "payment_tracking") : d2.payment_tracking[p].pr_id = id})

\* ---------------------------------------------------- a handler's outcome
\* A handler's write statements leave the working copies snaps[1..n]; it calls
\* conn.commit() after the statements in commits.  stop = 0: every statement
\* runs.  stop = k in 1..n: c.execute raises at statement k (sqlite3.Error), so
\* the store holds what was committed before it and the connection keeps the
\* uncommitted rest: no handler rolls back.  valid: statement stop exists.
Outcome(start, snaps, commits, stop) ==
    LET n == Len(snaps)
        At(i) == IF i = 0 THEN start ELSE snaps[i]
        Committed(k) == Max({0} \cup {c \in commits : c <= k})
    IN  IF stop \in 1 .. n
        THEN [db |-> At(Committed(stop - 1)), conn |-> At(stop - 1), ok |-> FALSE,
              valid |-> TRUE]
        ELSE [db |-> At(Committed(n)), conn |-> At(n), ok |-> TRUE, valid |-> stop = 0]

\* The handler itself gives up after the statements snaps[1..n]: st.stop(), or
\* an exception of its own code.  Nothing more is committed.
Aborted(start, snaps, commits, stop) ==
    [Outcome(start, snaps, commits, stop) EXCEPT !.ok = FALSE]

\* The handler gives up before its first write.
Raised(start) == [db |-> start, conn |-> start, ok |-> FALSE, valid |-> TRUE]

\* Lines 189-193: a run that finds no user creates the default admin and commits.
EnsureAdmin(d) ==
    IF Ids(d, "users") = {}
    THEN Insert(d, "users", [username |-> "admin", role |-> "Admin"])
    ELSE d

\* Lines 22-193, the top of every script run: the run's connection is new, it
\* sees the committed store only, and the default admin is there.
Connect == EnsureAdmin(db)

Finish(op, id, status, out) ==
    /\ out.valid
    /\ db' = out.db
    /\ conn' = out.conn
    /\ last' = [op |-> op, id |-> id, status |-> status, ok |-> out.ok]
    /\ UNCHANGED <<session, cookies, CURRENT_TIMESTAMP>>

NoSession == [user |-> NULL, role |-> NULL]

\* cookies.get of a browser that never logged in: None.
NoCookies == [user |-> NULL, role |-> NULL]

\* Lines 216-217 and 256-257: the cookies after a logout or a timeout.
ClearedCookies == [user |-> "", role |-> ""]

\* Line 223: the login gate.
LoggedIn == session.user # NULL

HistRoom == Len(db.status_history) < MaxHist

\* The rows inserted so far.
Issued(d) ==
    d.seq["pr_tracking"] + d.seq["payment_tracking"]
    + d.seq["dsa_payments"] + d.seq["operational_advances"]
    + d.seq["operational_liquidations"] + d.seq["users"]

RowRoom(k) == Issued(db) + k <= MaxRows

\* A page handler runs for a logged-in user; the exploration stops at a full ledger.
CanRun == LoggedIn /\ HistRoom

\* The ids a select box may hand to a handler: the rows read for the page.
\* A row read for the page can be gone when the handler runs (another
\* browser session deleted it in between): every id the table ever gave out.
Addressable(t) == 1 .. db.seq[t]

\* ------------------------------------------------------------ Dashboard
\* A PR update that sends the PR's payments back to Pending.
UpdatePRStatusWithPayments(d, id, s, by, stop) ==
    IF RecordMissing(d, "pr_tracking", id) THEN Raised(d)
    ELSE LET old_status == StatusOf(d, "pr_tracking", id)
             w1 == SetStatus(d, "pr_tracking", {id}, s)
             w2 == SetStatus(w1, "payment_tracking",
                       {p \in Ids(w1, "payment_tracking") :
                           w1.payment_tracking[p].pr_id = id}, "Pending")
             w3 == InsertHistory(w2, "PR", ToString(id), old_status, s, by)
         IN  Outcome(d, <<w1, w2, w3>>, {3}, stop)

UpdatePRStatusRun(d, id, s, by, stop) ==
    IF RecordMissing(d, "pr_tracking", id) THEN Raised(d)
    ELSE LET old_status == StatusOf(d, "pr_tracking", id)
             w1 == SetStatus(d, "pr_tracking", {id}, s)
             w2 == InsertHistory(w1, "PR", ToString(id), old_status, s, by)
         IN  Outcome(d, <<w1, w2>>, {2}, stop)

UpdatePRStatus(id, s, stop) ==
    /\ CanRun
    /\ Finish("UpdatePRStatus", id, s, UpdatePRStatusRun(Connect, id, s, session.user, stop))

DeletePRRun(d, id) == Outcome(d, <<DeletePRRow(d, id)>>, {1}, 0)

DeletePR(id) ==
    /\ CanRun
    /\ Finish("DeletePR", id, NULL, DeletePRRun(Connect, id))

\* A payment update that never cascades.
PaymentNeverCascades(s) == FALSE

\* Line 381: the payment update cascades to the PR.
PaymentCascades(s) == s = "Completed"

\* A cascade that takes every pr_id, NULL included, for a PR.
CascadeTargetAlwaysResolved(pr_id) == TRUE

\* Line 383, `if pr_id:` -- the payment names a PR to cascade to.
CascadeTargetResolved(pr_id) == pr_id # NoPr

\* Line 382: SELECT pr_id FROM payment_tracking WHERE id=?.
PrIdOf(d, id) ==
    IF id \in Ids(d, "payment_tracking") THEN d.payment_tracking[id].pr_id ELSE NoPr

UpdatePaymentStatusRun(d, id, s, by, stop) ==
    IF RecordMissing(d, "payment_tracking", id) THEN Raised(d)
    ELSE LET old_status == StatusOf(d, "payment_tracking", id)
             w1 == SetStatus(d, "payment_tracking", {id}, s)
             w2 == InsertHistory(w1, "Payment", ToString(id), old_status, s, by)
             pr_id == PrIdOf(w2, id)
             old_pr_status == StatusOf(w2, "pr_tracking", pr_id)
             w3 == SetStatus(w2, "pr_tracking", {pr_id}, "Completed")
             w4 == InsertHistory(w3, "PR", ToString(pr_id), old_pr_status, "Completed", by)
         IN  IF PaymentCascades(s) /\ CascadeTargetResolved(pr_id)
             THEN IF RecordMissing(w2, "pr_tracking", pr_id)
                  THEN Aborted(d, <<w1, w2>>, {2}, stop)
                  ELSE Outcome(d, <<w1, w2, w3, w4>>, {2, 4}, stop)
             ELSE Outcome(d, <<w1, w2>>, {2}, stop)

UpdatePaymentStatus(id, s, stop) ==
    /\ CanRun
    /\ Finish("UpdatePaymentStatus", id, s,
              UpdatePaymentStatusRun(Connect, id, s, session.user, stop))

DeletePaymentRun(d, id) == Outcome(d, <<DeleteRows(d, "payment_tracking", {id})>>, {1}, 0)

DeletePayment(id) ==
    /\ CanRun
    /\ Finish("DeletePayment", id, NULL, DeletePaymentRun(Connect, id))

UpdateDSAStatusRun(d, id, s, by, stop) ==
    IF RecordMissing(d, "dsa_payments", id) THEN Raised(d)
    ELSE LET old_status == StatusOf(d, "dsa_payments", id)
             w1 == SetStatus(d, "dsa_payments", {id}, s)
             w2 == InsertHistory(w1, "DSA", ToString(id), old_status, s, by)
         IN  Outcome(d, <<w1, w2>>, {2}, stop)

UpdateDSAStatus(id, s, stop) ==
    /\ CanRun
    /\ Finish("UpdateDSAStatus", id, s, UpdateDSAStatusRun(Connect, id, s, session.user, stop))

DeleteDSAPaymentRun(d, id) == Outcome(d, <<DeleteRows(d, "dsa_payments", {id})>>, {1}, 0)

DeleteDSAPayment(id) ==
    /\ CanRun
    /\ Finish("DeleteDSAPayment", id, NULL, DeleteDSAPaymentRun(Connect, id))

UpdateOAStatusRun(d, id, s, by, stop) ==
    IF RecordMissing(d, "operational_advances", id) THEN Raised(d)
    ELSE LET old_status == StatusOf(d, "operational_advances", id)
             w1 == SetStatus(d, "operational_advances", {id}, s)
             w2 == InsertHistory(w1, "OA", ToString(id), old_status, s, by)
         IN  Outcome(d, <<w1, w2>>, {2}, stop)

UpdateOAStatus(id, s, stop) ==
    /\ CanRun
    /\ Finish("UpdateOAStatus", id, s, UpdateOAStatusRun(Connect, id, s, session.user, stop))

\* The liquidation rows of an operational advance (WHERE oa_id=?).
LiquidationsOf(d, oa) ==
    {l \in Ids(d, "operational_liquidations") : d.operational_liquidations[l].oa_id = oa}

\* Line 501: the advances the liquidation select box offers.
li_opts(d) == {oa \in Ids(d, "operational_advances") : LiquidationsOf(d, oa) # {}}

\* Lines 511-514: SELECT status ... WHERE oa_id=? ... fetchone(), the first row.
old_liq_status(d, oa) ==
    IF LiquidationsOf(d, oa) = {} THEN NULL
    ELSE d.operational_liquidations[Min(LiquidationsOf(d, oa))].status

UpdateLiquidationStatusRun(d, selected_oa_id, s, by, stop) ==
    LET old == old_liq_status(d, selected_oa_id)
        w1 == SetStatus(d, "operational_liquidations", LiquidationsOf(d, selected_oa_id), s)
        w2 == SetStatus(w1, "operational_advances", {selected_oa_id}, s)
        w3 == InsertHistory(w2, "Liquidation", ToString(selected_oa_id), old, s, by)
        w4 == InsertHistory(w3, "OA", ToString(selected_oa_id), old, s, by)
    IN  Outcome(d, <<w1, w2, w3, w4>>, {4}, stop)

UpdateLiquidationStatus(selected_oa_id, s, stop) ==
    /\ CanRun
    /\ selected_oa_id \in li_opts(Connect)
    /\ Finish("UpdateLiquidationStatus", selected_oa_id, s,
              UpdateLiquidationStatusRun(Connect, selected_oa_id, s, session.user, stop))

\* ---------------------------------------------------------- PR Tracking
\* Line 749: sum([p for _, _, p in shared_wbls if p]).
RECURSIVE SumPercentages(_)
SumPercentages(wbls) ==
    IF wbls = <<>> THEN 0 ELSE Head(wbls) + SumPercentages(Tail(wbls))

\* Lines 776-778: one INSERT INTO pr_wbls per allocation of the line.
RECURSIVE InsertWbls(_, _, _)
InsertWbls(d, pr_id, wbls) ==
    IF wbls = <<>> THEN <<>>
    ELSE LET w == Insert(d, "pr_wbls", [pr_id |-> pr_id, percentage |-> Head(wbls)])
         IN  <<w>> \o InsertWbls(w, pr_id, Tail(wbls))

\* Line 755: a required field of the line is missing.
LineIncomplete(line) == line.location = ""

\* Days counted without the last day.
pr_days_exclusive(from_date, to_date) == Max({to_date - from_date, 0})

\* Line 672, Calculated Days of a PR line; dates are day numbers.
pr_days(from_date, to_date) == Max({to_date - from_date + 1, 0})

\* Lines 759-784, one PR line: the PR row, its allocations, its creation entry.
SubmitLine(d, line, by) ==
    LET w1 == Insert(d, "pr_tracking",
                     [status |-> "Submitted",
                      from_date |-> line.from_date, to_date |-> line.to_date,
                      days |-> pr_days(line.from_date, line.to_date),
                      reminder_expiry |-> line.reminder_expiry,
                      reminder_days |-> line.reminder_days])
        pr_id == LastRowId(w1, "pr_tracking")
        ws == InsertWbls(w1, pr_id, line.wbls)
        w2 == IF ws = <<>> THEN w1 ELSE ws[Len(ws)]
    IN  <<w1>> \o ws \o <<InsertHistory(w2, "PR", ToString(pr_id), NULL, "Submitted", by)>>

\* Lines 753-784: the loop over the lines, until st.stop() at an incomplete one.
RECURSIVE SubmitLines(_, _, _)
SubmitLines(d, lines, by) ==
    IF lines = <<>> THEN [snaps |-> <<>>, stopped |-> FALSE]
    ELSE IF LineIncomplete(Head(lines)) THEN [snaps |-> <<>>, stopped |-> TRUE]
    ELSE LET one == SubmitLine(d, Head(lines), by)
             rest == SubmitLines(one[Len(one)], Tail(lines), by)
         IN  [snaps |-> one \o rest.snaps, stopped |-> rest.stopped]

\* Line 715: with a shared allocation every line carries shared_wbls.
LinesWithWbls(same_wbl_for_all, shared_wbls, pr_lines) ==
    [i \in 1 .. Len(pr_lines) |->
        IF same_wbl_for_all THEN [pr_lines[i] EXCEPT !.wbls = shared_wbls]
        ELSE pr_lines[i]]

SubmitPRRun(d, header_complete, same_wbl_for_all, shared_wbls, pr_lines, by, stop) ==
    IF ~header_complete THEN Raised(d)
    ELSE IF same_wbl_for_all /\ SumPercentages(shared_wbls) # 100 THEN Raised(d)
    ELSE LET run == SubmitLines(d, LinesWithWbls(same_wbl_for_all, shared_wbls, pr_lines), by)
             n == Len(run.snaps)
         IN  IF run.stopped
             THEN Aborted(d, run.snaps, {}, stop)
             ELSE Outcome(d, run.snaps, {n}, stop)

SubmitPR(header_complete, same_wbl_for_all, shared_wbls, pr_lines, stop) ==
    /\ CanRun
    /\ RowRoom(Len(pr_lines))
    /\ Finish("SubmitPR", Len(pr_lines), "Submitted",
              SubmitPRRun(Connect, header_complete, same_wbl_for_all, shared_wbls,
                          pr_lines, session.user, stop))

\* ----------------------------------------------------- Payment Tracking
\* A Save Payment that never finds the PR's payment.
NoExistingPayment(d, pr_id) == {}

\* Lines 904-906: the payments already saved for the PR line.
existing_payment(d, pr_id) ==
    {p \in Ids(d, "payment_tracking") : d.payment_tracking[p].pr_id = pr_id}

SavePaymentRun(d, pr_id_choice, status, by, stop) ==
    LET existing == existing_payment(d, pr_id_choice)
        w1 == IF existing # {}
              THEN SetStatus(d, "payment_tracking", existing, status)
              ELSE Insert(d, "payment_tracking", [pr_id |-> pr_id_choice, status |-> status])
        w2 == InsertHistory(w1, "Payment", ToString(pr_id_choice), NULL, status, by)
        old_pr_status == StatusOf(d, "pr_tracking", pr_id_choice)
        w3 == SetStatus(w2, "pr_tracking", {pr_id_choice}, "Completed")
        w4 == InsertHistory(w3, "PR", ToString(pr_id_choice), old_pr_status, "Completed", by)
    IN  IF RecordMissing(d, "pr_tracking", pr_id_choice) THEN Raised(d)
        ELSE IF status = "Completed"
        THEN Outcome(d, <<w1, w2, w3, w4>>, {4}, stop)
        ELSE Outcome(d, <<w1, w2>>, {2}, stop)

SavePayment(pr_id_choice, status, stop) ==
    /\ CanRun
    /\ RowRoom(1)
    /\ Finish("SavePayment", pr_id_choice, status,
              SavePaymentRun(Connect, pr_id_choice, status, session.user, stop))

\* Lines 970-971, Calculated Days of a DSA payment, in tenths of a day.
dsa_days(start_date, end_date) ==
    LET diff == end_date - start_date
    IN  IF diff < 0 THEN 0 ELSE 10 * diff + 3

SaveDSAPaymentRun(d, vendor_name, start_date, end_date, status, by, stop) ==
    LET w1 == Insert(d, "dsa_payments",
                     [vendor_name |-> vendor_name, status |-> status,
                      start_date |-> start_date, end_date |-> end_date,
                      days |-> dsa_days(start_date, end_date)])
        w2 == InsertHistory(w1, "DSA", vendor_name, NULL, status, by)
    IN  Outcome(d, <<w1, w2>>, {2}, stop)

SaveDSAPayment(vendor_name, start_date, end_date, status, stop) ==
    /\ CanRun
    /\ RowRoom(1)
    /\ Finish("SaveDSAPayment", 0, status,
              SaveDSAPaymentRun(Connect, vendor_name, start_date, end_date, status,
                                session.user, stop))

SaveOperationalAdvanceRun(d, status, by, stop) ==
    LET w1 == Insert(d, "operational_advances", [status |-> status])
        w2 == InsertHistory(w1, "OA", ToString(LastRowId(w1, "operational_advances")),
                            NULL, status, by)
    IN  Outcome(d, <<w1, w2>>, {1, 2}, stop)

SaveOperationalAdvance(status, stop) ==
    /\ CanRun
    /\ RowRoom(1)
    /\ Finish("SaveOperationalAdvance", 0, status,
              SaveOperationalAdvanceRun(Connect, status, session.user, stop))

\* --------------------------------------- Operational Advance Liquidation
\* A liquidation that closes its advance on Completed only.
LiquidationClosesOnCompleted(status) == status = "Completed"

\* Line 1126: the saved liquidation closes the advance.
LiquidationCloses(status) == status \in {"Completed", "Paid"}

SaveLiquidationRecordRun(d, oa_id, status, by, stop) ==
    LET w1 == Insert(d, "operational_liquidations", [oa_id |-> oa_id, status |-> status])
        oa_status == StatusOf(d, "operational_advances", oa_id)
        w2 == SetStatus(w1, "operational_advances", {oa_id}, status)
        w3 == InsertHistory(w2, "OA", ToString(oa_id), oa_status, status, by)
    IN  IF LiquidationCloses(status)
        THEN Outcome(d, <<w1, w2, w3>>, {3}, stop)
        ELSE Outcome(d, <<w1>>, {1}, stop)

SaveLiquidationRecord(oa_id, status, stop) ==
    /\ CanRun
    /\ oa_id \in Ids(db, "operational_advances")
    /\ RowRoom(1)
    /\ Finish("SaveLiquidationRecord", oa_id, status,
              SaveLiquidationRecordRun(Connect, oa_id, status, session.user, stop))

\* ------------------------------------------------------ User Management
UsersNamed(d, username) == {u \in Ids(d, "users") : d.users[u].username = username}

\* Lines 1160-1172: username is UNIQUE, a second one raises IntegrityError.
AddUserRun(d, uname, role) ==
    IF UsersNamed(d, uname) # {} THEN Raised(d)
    ELSE Outcome(d, <<Insert(d, "users", [username |-> uname, role |-> role])>>, {1}, 0)

\* Line 1150: the page is for the Admin role.
AddUser(uname, role) ==
    /\ CanRun /\ session.role = "Admin"
    /\ RowRoom(1)
    /\ Finish("AddUser", 0, NULL, AddUserRun(Connect, uname, role))

DeleteUserRun(d, id) == Outcome(d, <<DeleteRows(d, "users", {id})>>, {1}, 0)

DeleteUser(id) ==
    /\ CanRun /\ session.role = "Admin"
    /\ RowRoom(1)
    /\ Finish("DeleteUser", id, NULL, DeleteUserRun(Connect, id))

\* ------------------------------------------------------ login and logout
\* Lines 229-242: the user exists and the password matches.
Login(username) ==
    /\ ~LoggedIn
    /\ \E u \in UsersNamed(Connect, username) :
          /\ session' = [user |-> Connect.users[u].username, role |-> Connect.users[u].role]
          /\ cookies' = session'
    /\ db' = Connect
    /\ conn' = Connect
    /\ last' = [op |-> "Login", id |-> 0, status |-> NULL, ok |-> TRUE]
    /\ UNCHANGED CURRENT_TIMESTAMP

\* Lines 251-259.
Logout ==
    /\ LoggedIn
    /\ session' = NoSession
    /\ cookies' = ClearedCookies
    /\ db' = Connect
    /\ conn' = Connect
    /\ last' = [op |-> "Logout", id |-> 0, status |-> NULL, ok |-> TRUE]
    /\ UNCHANGED CURRENT_TIMESTAMP

\* ------------------------------------------------------------ the inputs
Usernames == {"admin", "staff"}
Roles == {"Admin", "Staff"}
Locations == {"", "Islamabad"}
WblInputs == {<<100>>}
\* The date widgets' default: today, as a day number.
Today == 2
\* Line 689: no reminder, reminder_days = None; a value n is <<n>>.
NoDays == <<>>
LineInputs ==
    [location : Locations, wbls : WblInputs, from_date : {Today}, to_date : {Today},
     reminder_expiry : {"No"}, reminder_days : {NoDays}]
PRLineInputs == UNION {[1 .. n -> LineInputs] : n \in 1 .. MaxLines}

\* Lines 26-193: the tables exist, empty, and the default admin is created.
NewStore ==
    [pr_tracking |-> <<>>, pr_wbls |-> <<>>, payment_tracking |-> <<>>,
     dsa_payments |-> <<>>, operational_advances |-> <<>>,
     operational_liquidations |-> <<>>,
     users |-> (1 :> [username |-> "admin", role |-> "Admin"]),
     status_history |-> <<>>,
     seq |-> [t \in Tables |-> IF t = "users" THEN 1 ELSE 0]]

\* A store written before payment_tracking.pr_id existed: a payment that is
\* known by its PR number only, pr_id NULL (lines 73-74).
LegacyStore ==
    [NewStore EXCEPT !.payment_tracking = (1 :> [pr_id |-> NoPr, status |-> "Pending"]),
                     !.seq["payment_tracking"] = 1]

Init ==
    /\ db = NewStore
    /\ conn = db
    /\ session = NoSession
    /\ cookies = NoCookies
    /\ CURRENT_TIMESTAMP = 0
    /\ last = [op |-> "none", id |-> 0, status |-> NULL, ok |-> TRUE]

InitLegacy ==
    /\ db = LegacyStore
    /\ conn = db
    /\ session = NoSession
    /\ cookies = NoCookies
    /\ CURRENT_TIMESTAMP = 0
    /\ last = [op |-> "none", id |-> 0, status |-> NULL, ok |-> TRUE]

SessionStep ==
    \/ \E u \in Usernames : Login(u)
    \/ Logout

UserManagement ==
    \/ \E u \in Usernames, r \in Roles : AddUser(u, r)
    \/ \E id \in Addressable("users") : DeleteUser(id)

Dashboard ==
    \/ \E id \in Addressable("pr_tracking"), s \in PRStatuses : UpdatePRStatus(id, s, 0)
    \/ \E id \in Addressable("pr_tracking") : DeletePR(id)
    \/ \E id \in Addressable("payment_tracking"), s \in PaymentStatuses :
            UpdatePaymentStatus(id, s, 0)
    \/ \E id \in Addressable("payment_tracking") : DeletePayment(id)
    \/ \E id \in Addressable("dsa_payments"), s \in DSAStatuses : UpdateDSAStatus(id, s, 0)
    \/ \E id \in Addressable("dsa_payments") : DeleteDSAPayment(id)
    \/ \E id \in Addressable("operational_advances"), s \in OAStatuses :
            UpdateOAStatus(id, s, 0)
    \/ \E oa \in Addressable("operational_advances"), s \in LiquidationStatuses :
            UpdateLiquidationStatus(oa, s, 0)

Forms ==
    \/ \E h \in BOOLEAN, lines \in PRLineInputs : SubmitPR(h, FALSE, <<>>, lines, 0)
    \/ \E pr \in Addressable("pr_tracking"), s \in PaymentStatuses : SavePayment(pr, s, 0)
    \/ \E v \in VendorNames, s \in DSAStatuses : SaveDSAPayment(v, Today, Today, s, 0)
    \/ \E s \in OAStatuses : SaveOperationalAdvance(s, 0)
    \/ \E oa \in Addressable("operational_advances"), s \in LiquidationStatuses :
            SaveLiquidationRecord(oa, s, 0)

Next == SessionStep \/ Dashboard \/ Forms

\* The workflow of a store whose users are left alone.
Spec == Init /\ [][Next]_vars

\* The same, from a store that holds a payment without a PR id.
SpecLegacy == InitLegacy /\ [][Next]_vars

NextAdmin == Next \/ UserManagement

\* The statements of a run at which c.execute may raise.
FaultPoints == 1 .. 4

\* The status a failing run asks for: the one with the longest statement list.
FaultStatus == "Completed"

\* A run in which a statement raises: the disk is full, the file is locked.
Fault ==
    \E stop \in FaultPoints :
        \/ \E id \in Ids(db, "pr_tracking") : UpdatePRStatus(id, FaultStatus, stop)
        \/ \E id \in Ids(db, "payment_tracking") : UpdatePaymentStatus(id, FaultStatus, stop)
        \/ \E id \in Ids(db, "dsa_payments") : UpdateDSAStatus(id, FaultStatus, stop)
        \/ \E id \in Ids(db, "operational_advances") : UpdateOAStatus(id, FaultStatus, stop)
        \/ \E oa \in Ids(db, "operational_advances") :
                UpdateLiquidationStatus(oa, FaultStatus, stop)
        \/ \E lines \in PRLineInputs : SubmitPR(TRUE, FALSE, <<>>, lines, stop)
        \/ \E pr \in Ids(db, "pr_tracking") : SavePayment(pr, FaultStatus, stop)
        \/ \E v \in VendorNames : SaveDSAPayment(v, Today, Today, FaultStatus, stop)
        \/ SaveOperationalAdvance(FaultStatus, stop)
        \/ \E oa \in Ids(db, "operational_advances") :
                SaveLiquidationRecord(oa, FaultStatus, stop)

NextFault == Next \/ Fault

\* The workflow on a store whose statements may fail.
SpecFault == Init /\ [][NextFault]_vars

\* The workflow together with the User Management page.
SpecAdmin == Init /\ [][NextAdmin]_vars

\* ============================================================ properties
IsPrefix(a, b) == Len(a) <= Len(b) /\ SubSeq(b, 1, Len(a)) = a

\* The ledger entries a step appends.
Appended ==
    SubSeq(db'.status_history, Len(db.status_history) + 1, Len(db'.status_history))

StatusUpdates ==
    {"UpdatePRStatus", "UpdatePaymentStatus", "UpdateDSAStatus", "UpdateOAStatus",
     "UpdateLiquidationStatus"}

\* The step is a run of handler op that completed.
Ran(op) == last'.op = op /\ last'.ok

\* The rows the UPDATE ... SET status statements of a status update address
\* (lines 342, 373 and 385, 418, 488, 521 and 523).
StatusWrites(op, id, s) ==
    CASE op = "UpdatePRStatus" -> {<<"pr_tracking", id>>}
      [] op = "UpdatePaymentStatus" ->
            {<<"payment_tracking", id>>}
            \cup (IF s = "Completed" /\ PrIdOf(db, id) # NoPr
                  THEN {<<"pr_tracking", PrIdOf(db, id)>>} ELSE {})
      [] op = "UpdateDSAStatus" -> {<<"dsa_payments", id>>}
      [] op = "UpdateOAStatus" -> {<<"operational_advances", id>>}
      [] op = "UpdateLiquidationStatus" ->
            {<<"operational_liquidations", l>> : l \in LiquidationsOf(db, id)}
            \cup {<<"operational_advances", id>>}

\* The status update cascades to a second entity (lines 381-383; spec: a
\* liquidation reaching Completed or Paid).
C1_Cascading(op, id, s) ==
    \/ op = "UpdatePaymentStatus" /\ s = "Completed" /\ PrIdOf(db, id) # NoPr
    \/ op = "UpdateLiquidationStatus" /\ s \in {"Completed", "Paid"}

\* C1 (as claimed): a completed status update appends as many ledger entries as
\* it writes entity records: exactly one when it does not cascade, exactly two
\* when it does.
C1_OneEntryPerWrittenRecord ==
    [][\A op \in StatusUpdates :
          Ran(op) =>
            /\ Len(Appended) = Cardinality(StatusWrites(op, last'.id, last'.status))
            /\ Len(Appended) =
                 IF C1_Cascading(op, last'.id, last'.status) THEN 2 ELSE 1]_vars

\* C2: a payment linked to a PR that is moved to Completed, on the dashboard or
\* by Save Payment, leaves the PR Completed and appends two entries, tagged
\* Payment and PR, both with new_status Completed.
C2_MovedToCompleted(p) ==
    /\ last'.ok /\ last'.status = "Completed"
    /\ p \in Ids(db', "payment_tracking")
    /\ db'.payment_tracking[p].pr_id # NoPr
    /\ \/ last'.op = "UpdatePaymentStatus" /\ last'.id = p
       \/ last'.op = "SavePayment" /\ db'.payment_tracking[p].pr_id = last'.id

C2_PaymentCompletedCascades ==
    [][\A p \in Addressable("payment_tracking") \cup Ids(db', "payment_tracking") :
          C2_MovedToCompleted(p) =>
            LET pr == db'.payment_tracking[p].pr_id
            IN  /\ db'.payment_tracking[p].status = "Completed"
                /\ pr \in Ids(db', "pr_tracking")
                /\ db'.pr_tracking[pr].status = "Completed"
                /\ Len(Appended) = 2
                /\ Appended[1].record_type = "Payment"
                /\ Appended[1].new_status = "Completed"
                /\ Appended[2].record_type = "PR"
                /\ Appended[2].new_status = "Completed"]_vars

C2_Witness ==
    /\ last.op = "UpdatePaymentStatus" /\ last.ok /\ last.status = "Completed"
    /\ last.id \in Ids(db, "payment_tracking")
    /\ LET pr == db.payment_tracking[last.id].pr_id
           n == Len(db.status_history)
       IN  /\ pr # NoPr
           /\ db.pr_tracking[pr].status = "Completed"
           /\ n >= 2
           /\ db.status_history[n - 1].record_type = "Payment"
           /\ db.status_history[n].record_type = "PR"
           /\ db.status_history[n].old_status # "Completed"

\* C3: a liquidation that reaches Completed or Paid, on the dashboard or by
\* Save Liquidation Record, leaves its advance in that status and appends an
\* entry tagged OA with that status.
C3_LiquidationClosesAdvance ==
    [][\A op \in {"UpdateLiquidationStatus", "SaveLiquidationRecord"} :
          (Ran(op) /\ last'.status \in {"Completed", "Paid"}) =>
            /\ db'.operational_advances[last'.id].status = last'.status
            /\ \E i \in 1 .. Len(Appended) :
                  /\ Appended[i].record_type = "OA"
                  /\ Appended[i].new_status = last'.status]_vars

C3_Witness ==
    /\ last.op = "SaveLiquidationRecord" /\ last.ok /\ last.status = "Paid"
    /\ db.operational_advances[last.id].status = "Paid"
    /\ LET n == Len(db.status_history)
       IN  /\ n >= 2
           /\ db.status_history[n].record_type = "OA"
           /\ db.status_history[n].new_status = "Paid"
           /\ db.status_history[n].old_status \notin {"Paid", NULL}

\* C4 (as claimed): a liquidation set to Pending or In Process leaves its
\* advance's status alone and appends no OA entry; a payment set to Pending or
\* In Process leaves its PR's status alone and appends no PR entry.
C4_NoCascadeOutsideTriggerSet ==
    [][/\ \A op \in {"UpdateLiquidationStatus", "SaveLiquidationRecord"} :
            (Ran(op) /\ last'.status \in {"Pending", "In Process"}) =>
              /\ db'.operational_advances = db.operational_advances
              /\ \A i \in 1 .. Len(Appended) : Appended[i].record_type # "OA"
       /\ \A op \in {"UpdatePaymentStatus", "SavePayment"} :
            (Ran(op) /\ last'.status \in {"Pending", "In Process"}) =>
              /\ db'.pr_tracking = db.pr_tracking
              /\ \A i \in 1 .. Len(Appended) : Appended[i].record_type # "PR"]_vars

\* C5: the ledger is append-only: every step keeps the ledger it found as a
\* prefix of the ledger it leaves, whatever is deleted.
C5_LedgerAppendOnly ==
    [][IsPrefix(db.status_history, db'.status_history)]_vars

C5_Witness ==
    /\ last.op = "DeletePR" /\ last.ok
    /\ last.id \notin Ids(db, "pr_tracking")
    /\ \E i \in 1 .. Len(db.status_history) :
          /\ db.status_history[i].record_type = "PR"
          /\ db.status_history[i].record_id = ToString(last.id)

TableOf(op) ==
    CASE op = "UpdatePRStatus" -> "pr_tracking"
      [] op = "UpdatePaymentStatus" -> "payment_tracking"
      [] op = "UpdateDSAStatus" -> "dsa_payments"
      [] op = "UpdateOAStatus" -> "operational_advances"
      [] op = "UpdateLiquidationStatus" -> "operational_liquidations"

\* The record_type the handlers write for the rows of a table.
TagOf(t) ==
    CASE t = "pr_tracking" -> "PR"
      [] t = "payment_tracking" -> "Payment"
      [] t = "dsa_payments" -> "DSA"
      [] t = "operational_advances" -> "OA"
      [] t = "operational_liquidations" -> "Liquidation"

EntityTables ==
    {"pr_tracking", "payment_tracking", "dsa_payments", "operational_advances",
     "operational_liquidations"}

\* The rows a status update of op addresses by id.
TargetRows(d, op, id) ==
    IF op = "UpdateLiquidationStatus" THEN LiquidationsOf(d, id)
    ELSE {id} \cap Ids(d, TableOf(op))

\* Every row the update addresses has status s in store d.
AllInStatus(d, op, id, s) ==
    /\ TargetRows(d, op, id) # {}
    /\ \A r \in TargetRows(d, op, id) : d[TableOf(op)][r].status = s

\* C6: a status update that asks for the status the entity already has leaves
\* the status as it is and still appends an entry for the entity, with
\* old_status = new_status = that status, each time it is repeated.
C6_ReapplyingStillLogs ==
    [][\A op \in StatusUpdates :
          (Ran(op) /\ AllInStatus(db, op, last'.id, last'.status)) =>
            /\ AllInStatus(db', op, last'.id, last'.status)
            /\ Len(Appended) >= 1
            /\ Appended[1].record_type = TagOf(TableOf(op))
            /\ Appended[1].old_status = last'.status
            /\ Appended[1].new_status = last'.status]_vars

C6_Witness ==
    /\ last.op = "UpdatePRStatus" /\ last.ok
    /\ LET n == Len(db.status_history)
       IN  /\ n >= 3
           /\ \A i \in {n - 1, n} :
                 /\ db.status_history[i].record_type = "PR"
                 /\ db.status_history[i].record_id = ToString(last.id)
                 /\ db.status_history[i].old_status = last.status
                 /\ db.status_history[i].new_status = last.status
    /\ StatusOf(db, "pr_tracking", last.id) = last.status

\* C7 (as claimed): a completed operation that creates rows of one of the five
\* entity types appends, per created row, exactly one entry tagged with that
\* type, with a null old_status and the row's status as new_status.
C7_CreationLogsOneEntry ==
    [][last'.ok =>
         \A t \in EntityTables :
            LET created == Ids(db', t) \ Ids(db, t)
                entries == {i \in 1 .. Len(Appended) :
                               /\ Appended[i].record_type = TagOf(t)
                               /\ Appended[i].old_status = NULL}
            IN  created # {} =>
                  /\ Cardinality(entries) = Cardinality(created)
                  /\ \A i \in entries :
                        \E r \in created : db'[t][r].status = Appended[i].new_status]_vars

\* C8: a payment without a linked PR that the dashboard moves to Completed: the
\* update goes through, the payment is Completed in the store, one entry, tagged
\* Payment, is appended, and no PR changes.
C8_UnresolvedCascadeSkipped ==
    [][(/\ last'.op = "UpdatePaymentStatus" /\ last'.status = "Completed"
        /\ last'.id \in Ids(db, "payment_tracking")
        /\ db.payment_tracking[last'.id].pr_id = NoPr) =>
          /\ last'.ok
          /\ db'.payment_tracking[last'.id].status = "Completed"
          /\ Len(Appended) = 1
          /\ Appended[1].record_type = "Payment"
          /\ Appended[1].new_status = "Completed"
          /\ db'.pr_tracking = db.pr_tracking]_vars

C8_Witness ==
    /\ last.op = "UpdatePaymentStatus" /\ last.ok /\ last.status = "Completed"
    /\ last.id \in Ids(db, "payment_tracking")
    /\ db.payment_tracking[last.id].pr_id = NoPr
    /\ db.payment_tracking[last.id].status = "Completed"
    /\ \E pr \in Ids(db, "pr_tracking") : db.pr_tracking[pr].status # "Completed"
    /\ LET n == Len(db.status_history)
       IN  n >= 1 /\ db.status_history[n].record_type = "Payment"
                  /\ db.status_history[n].old_status = "Pending"

C10_FailedRunCommitsNothing ==
    [][(~last'.ok) => db' = Connect]_vars

\* Some entry the step appends is tagged ty and carries new_status st.
Logged(ty, st) ==
    \E i \in 1 .. Len(Appended) :
        Appended[i].record_type = ty /\ Appended[i].new_status = st

\* The store after the step holds both status writes and both entries of the
\* cascading dashboard update op.
C11_AllPresent(op, id, st) ==
    IF op = "UpdatePaymentStatus"
    THEN /\ StatusOf(db', "payment_tracking", id) = st
         /\ StatusOf(db', "pr_tracking", PrIdOf(db, id)) = st
         /\ Logged("Payment", st) /\ Logged("PR", st)
    ELSE /\ \A l \in LiquidationsOf(db, id) : StatusOf(db', "operational_liquidations", l) = st
         /\ StatusOf(db', "operational_advances", id) = st
         /\ Logged("Liquidation", st) /\ Logged("OA", st)

\* C11 (as claimed): a cascading dashboard update, of a payment or of a
\* liquidation, is all or nothing: the store after the run holds the primary
\* status write, the cascade status write and both entries, or it is the store
\* the run found.
C11_CascadeAllOrNothing ==
    [][\A op \in {"UpdatePaymentStatus", "UpdateLiquidationStatus"} :
          (last'.op = op /\ C1_Cascading(op, last'.id, last'.status)) =>
            \/ db' = Connect
            \/ C11_AllPresent(op, last'.id, last'.status)]_vars

Terminal(t) ==
    IF t \in {"pr_tracking", "payment_tracking"} THEN {"Completed"}
    ELSE {"Completed", "Paid"}

\* C13 (as claimed): no step moves an entity out of a terminal status: a row
\* that is Completed (PR, payment) or Completed/Paid (DSA payment, advance,
\* liquidation) and is still there after the step is still in a terminal status.
C13_TerminalStatesStay ==
    [][\A t \in EntityTables :
          \A r \in Ids(db, t) \cap Ids(db', t) :
              db[t][r].status \in Terminal(t) => db'[t][r].status \in Terminal(t)]_vars

\* The status the workflow of a table starts in.
InitialStatus(t) == IF t = "pr_tracking" THEN "Submitted" ELSE "Pending"

\* C14 (as claimed): every row a step creates in one of the five entity tables
\* has its initial status: Submitted for a PR, Pending for the others.
C14_CreatedInInitialStatus ==
    [][\A t \in EntityTables :
          \A r \in Ids(db', t) \ Ids(db, t) : db'[t][r].status = InitialStatus(t)]_vars

\* C15: in every state of the store a PR has at most one payment linked to it.
C15_OnePaymentPerPR ==
    \A pr \in Ids(db, "pr_tracking") :
        Cardinality({p \in Ids(db, "payment_tracking") :
                        db.payment_tracking[p].pr_id = pr}) <= 1

\* Save Payment has run a second time for the PR and its payment row is still
\* the first one, now with the second status.
C15_Witness ==
    /\ last.op = "SavePayment" /\ last.ok
    /\ db.seq["payment_tracking"] = 1
    /\ Ids(db, "payment_tracking") = {1}
    /\ db.payment_tracking[1].pr_id = last.id
    /\ db.payment_tracking[1].status = last.status
    /\ LET n == Len(db.status_history)
       IN  /\ n >= 3
           /\ \A i \in {n - 1, n} :
                 /\ db.status_history[i].record_type = "Payment"
                 /\ db.status_history[i].record_id = ToString(last.id)
           /\ db.status_history[n - 1].new_status # db.status_history[n].new_status

\* C16 (as claimed): in every state of the store an operational advance has at
\* most one liquidation linked to it.
C16_OneLiquidationPerAdvance ==
    \A oa \in Ids(db, "operational_advances") :
        Cardinality({l \in Ids(db, "operational_liquidations") :
                        db.operational_liquidations[l].oa_id = oa}) <= 1

\* --------------------------------------------- the WBL allocation inputs
\* Percentages of an allocation set: one of 100, 60 + 40, 60 + 30.
WblFormInputs == {<<100>>, <<60, 40>>, <<60, 30>>}

WblLineInputs ==
    [location : {"Islamabad"}, wbls : WblFormInputs, from_date : {Today},
     to_date : {Today}, reminder_expiry : {"No"}, reminder_days : {NoDays}]

WblPRLineInputs == UNION {[1 .. n -> WblLineInputs] : n \in 1 .. MaxLines}

\* The PR Tracking page with its WBL allocation widgets, and Delete PR.
NextWbl ==
    \/ SessionStep
    \/ \E shared \in WblFormInputs, lines \in PRLineInputs :
            SubmitPR(TRUE, TRUE, shared, lines, 0)
    \/ \E lines \in WblPRLineInputs : SubmitPR(TRUE, FALSE, <<>>, lines, 0)
    \/ \E id \in Addressable("pr_tracking") : DeletePR(id)

SpecWbl == Init /\ [][NextWbl]_vars

\* The sum of the percentages of the pr_wbls rows ws of store d.
RECURSIVE SumRows(_, _)
SumRows(d, ws) ==
    IF ws = {} THEN 0
    ELSE LET w == CHOOSE x \in ws : TRUE
         IN  d.pr_wbls[w].percentage + SumRows(d, ws \ {w})

\* C17 (as claimed): the allocations of every stored PR sum to 100, whether the
\* PR was submitted with a shared or with an individual allocation set: a
\* submission with another sum is rejected and writes nothing.
C17_AllocationsSumTo100 ==
    \A pr \in Ids(db, "pr_tracking") :
        SumRows(db, {w \in Ids(db, "pr_wbls") : db.pr_wbls[w].pr_id = pr}) = 100

\* ------------------------------------------------- the DSA date inputs
\* Start and end dates of the DSA Payment Form, as day numbers: the end lies
\* from one day before to five days after the start.
DsaStartDates == {1}
DsaEndDates == 0 .. 6

\* The DSA Payment Form with its date widgets, and the dashboard's DSA buttons.
NextDsa ==
    \/ SessionStep
    \/ \E v \in VendorNames, sd \in DsaStartDates, ed \in DsaEndDates :
            SaveDSAPayment(v, sd, ed, "Pending", 0)
    \/ \E id \in Addressable("dsa_payments"), s \in DSAStatuses : UpdateDSAStatus(id, s, 0)
    \/ \E id \in Addressable("dsa_payments") : DeleteDSAPayment(id)

SpecDsa == Init /\ [][NextDsa]_vars

\* C18 (as claimed): the days stored for a DSA payment, in tenths of a day, with
\* diff = end_date - start_date: 0 when diff <= 0, 3 when diff = 1, and
\* 10 * (diff - 1) + 3 when diff >= 2.
C18_DsaDaysAsSpecified ==
    \A r \in Ids(db, "dsa_payments") :
        LET diff == db.dsa_payments[r].end_date - db.dsa_payments[r].start_date
        IN  db.dsa_payments[r].days =
              IF diff <= 0 THEN 0 ELSE IF diff = 1 THEN 3 ELSE 10 * (diff - 1) + 3

\* ------------------------------------------------ the PR line date inputs
\* From and To of a PR line, as day numbers: To lies from two days before to
\* four days after From.
FromDates == {1, 3}
ToDates == {1, 2, 5}

DateLineInputs ==
    [location : {"Islamabad"}, wbls : WblInputs, from_date : FromDates,
     to_date : ToDates, reminder_expiry : {"No"}, reminder_days : {NoDays}]

DatePRLineInputs == UNION {[1 .. n -> DateLineInputs] : n \in 1 .. MaxLines}

\* The PR Tracking page with its date widgets, and every operation that writes
\* a PR row afterwards: the PR's own update and deletion, and its payment's.
NextPRDays ==
    \/ SessionStep
    \/ \E lines \in DatePRLineInputs : SubmitPR(TRUE, FALSE, <<>>, lines, 0)
    \/ \E id \in Addressable("pr_tracking"), s \in PRStatuses : UpdatePRStatus(id, s, 0)
    \/ \E id \in Addressable("pr_tracking") : DeletePR(id)
    \/ \E pr \in Addressable("pr_tracking"), s \in PaymentStatuses : SavePayment(pr, s, 0)
    \/ \E id \in Addressable("payment_tracking") : UpdatePaymentStatus(id, "Completed", 0)

SpecPRDays == Init /\ [][NextPRDays]_vars

\* The days of a PR line as the specification gives them.
C19_Days(from_date, to_date) ==
    IF to_date - from_date + 1 >= 0 THEN to_date - from_date + 1 ELSE 0

\* C19: the days of every PR row are (to_date - from_date) + 1, floored at 0
\* (day 1 to day 5 gives 5), and no step changes the dates or the days of a PR
\* row that it leaves in the store.
C19_PRDaysFixedAtSubmission ==
    [][/\ \A a \in FromDates, b \in ToDates : pr_days(a, b) = C19_Days(a, b)
       /\ pr_days(1, 5) = 5
       /\ \A pr \in Ids(db', "pr_tracking") :
             /\ db'.pr_tracking[pr].days =
                    C19_Days(db'.pr_tracking[pr].from_date, db'.pr_tracking[pr].to_date)
             /\ pr \in Ids(db, "pr_tracking") =>
                    /\ db'.pr_tracking[pr].days = db.pr_tracking[pr].days
                    /\ db'.pr_tracking[pr].from_date = db.pr_tracking[pr].from_date
                    /\ db'.pr_tracking[pr].to_date = db.pr_tracking[pr].to_date]_vars

\* A PR line of five days, day 1 to day 5, that a payment's cascade has
\* completed.
C19_Witness ==
    /\ last.op = "UpdatePaymentStatus" /\ last.ok
    /\ \E pr \in Ids(db, "pr_tracking") :
          /\ PrIdOf(db, last.id) = pr
          /\ db.pr_tracking[pr].from_date = 1
          /\ db.pr_tracking[pr].to_date = 5
          /\ db.pr_tracking[pr].days = 5
          /\ db.pr_tracking[pr].status = "Completed"

\* ------------------------------------------------------- PR Reminders
\* Lines 543-547: the PRs of the reminder table, WHERE reminder_expiry='Yes'.
reminders(d) ==
    {pr \in Ids(d, "pr_tracking") : d.pr_tracking[pr].reminder_expiry = "Yes"}

\* pd.NaT; a date d is <<d>>.
NaT == <<>>

\* Lines 555-559, column Reminder Date: from_date - reminder_days, NaT when
\* one of them is null.
ReminderDate(from_date, reminder_days) ==
    IF from_date # <<>> /\ reminder_days # NoDays
    THEN <<from_date[1] - reminder_days[1]>>
    ELSE NaT

\* A label that takes the reminder's own day for overdue.
status_label_late(d, today) ==
    IF d = NaT THEN "--"
    ELSE IF d[1] <= today THEN "Overdue"
    ELSE "Upcoming"

\* Lines 562-569, status_label, with today of line 561; the labels without
\* their pictographs, "--" for the dash.
status_label(d, today) ==
    IF d = NaT THEN "--"
    ELSE IF d[1] < today THEN "Overdue"
    ELSE IF d[1] = today THEN "Due Today"
    ELSE "Upcoming"

\* Line 571, column Status of the reminder table for PR pr.
ReminderStatus(d, pr, today) ==
    status_label(ReminderDate(<<d.pr_tracking[pr].from_date>>,
                              d.pr_tracking[pr].reminder_days), today)

\* Lines 688-693: no reminder, or a reminder one or two days before From.
ReminderChoices ==
    {[reminder_expiry |-> "No", reminder_days |-> NoDays]}
    \cup {[reminder_expiry |-> "Yes", reminder_days |-> <<n>>] : n \in 1 .. 2}

ReminderFromDates == {2, 3}

ReminderLineInputs ==
    {[location |-> "Islamabad", wbls |-> <<100>>, from_date |-> f, to_date |-> f,
      reminder_expiry |-> r.reminder_expiry, reminder_days |-> r.reminder_days] :
        f \in ReminderFromDates, r \in ReminderChoices}

ReminderPRLineInputs == UNION {[1 .. n -> ReminderLineInputs] : n \in 1 .. MaxLines}

\* Line 561: the days on which the dashboard is looked at.
Todays == 0 .. 3

\* The PR Tracking page with its reminder widgets, and the dashboard's PR
\* buttons.
NextReminders ==
    \/ SessionStep
    \/ \E lines \in ReminderPRLineInputs : SubmitPR(TRUE, FALSE, <<>>, lines, 0)
    \/ \E id \in Addressable("pr_tracking"), s \in PRStatuses : UpdatePRStatus(id, s, 0)
    \/ \E id \in Addressable("pr_tracking") : DeletePR(id)

SpecReminders == Init /\ [][NextReminders]_vars

\* C20: on every day, a PR of the reminder table has the reminder date
\* from_date - reminder_days and is Overdue exactly when that date is before
\* today, Due Today exactly when it is today and Upcoming exactly when it is
\* after today; a reminder date that lacks its from_date or its reminder_days
\* gets the dash and none of the three labels.
C20_ReminderClassification ==
    \A today \in Todays :
        /\ \A pr \in reminders(db) :
              LET row == db.pr_tracking[pr]
                  rd == ReminderDate(<<row.from_date>>, row.reminder_days)
                  label == ReminderStatus(db, pr, today)
              IN  /\ row.reminder_days # NoDays
                  /\ rd = <<row.from_date - row.reminder_days[1]>>
                  /\ label = "Overdue" <=> rd[1] < today
                  /\ label = "Due Today" <=> rd[1] = today
                  /\ label = "Upcoming" <=> rd[1] > today
        /\ \A fd \in {<<>>} \cup {<<f>> : f \in ReminderFromDates},
              days \in {NoDays} \cup {<<n>> : n \in 0 .. 2} :
              (fd = <<>> \/ days = NoDays) =>
                  status_label(ReminderDate(fd, days), today) = "--"
        /\ status_label(ReminderDate(<<today>>, <<0>>), today) = "Due Today"
        /\ status_label(ReminderDate(<<today - 1>>, <<0>>), today) = "Overdue"

\* On one day the reminder table shows an overdue, a due and an upcoming PR.
C20_Witness ==
    \E today \in Todays :
        \E a, b, c \in reminders(db) :
            /\ ReminderStatus(db, a, today) = "Overdue"
            /\ ReminderStatus(db, b, today) = "Due Today"
            /\ ReminderStatus(db, c, today) = "Upcoming"

\* ----------------------------------------------- Reports: Status Timeline
\* A second passes between two script runs.
Tick ==
    /\ CURRENT_TIMESTAMP < MaxClock
    /\ CURRENT_TIMESTAMP' = CURRENT_TIMESTAMP + 1
    /\ last' = [op |-> "Tick", id |-> 0, status |-> NULL, ok |-> TRUE]
    /\ UNCHANGED <<db, conn, session, cookies>>

\* Line 1249, WHERE record_id=?: the ledger rows, by their place in the
\* ledger, whose record_id is the text of the chosen PR id.
TimelineRows(d, pr_id_choice) ==
    {i \in 1 .. Len(d.status_history) :
        d.status_history[i].record_id = ToString(pr_id_choice)}

\* Line 1249, ORDER BY changed_at: the orders in which the rows S may come
\* back.  changed_at is the only sort key, so the rows of one second come in
\* any order.
RECURSIVE OrderByChangedAt(_, _)
OrderByChangedAt(d, S) ==
    IF S = {} THEN {<<>>}
    ELSE UNION {{<<i>> \o t : t \in OrderByChangedAt(d, S \ {i})} :
                  i \in {j \in S : \A k \in S :
                            d.status_history[j].changed_at
                                <= d.status_history[k].changed_at}}

\* Lines 1247-1250: the results the timeline query may give for a PR id.
timeline(d, pr_id_choice) == OrderByChangedAt(d, TimelineRows(d, pr_id_choice))

\* The pages that write entries under a PR id, while the clock runs.
NextTimeline ==
    \/ SessionStep
    \/ Tick
    \/ \E lines \in PRLineInputs : SubmitPR(TRUE, FALSE, <<>>, lines, 0)
    \/ \E id \in Addressable("pr_tracking"), s \in PRStatuses : UpdatePRStatus(id, s, 0)
    \/ \E pr \in Addressable("pr_tracking"), s \in PaymentStatuses : SavePayment(pr, s, 0)
    \/ \E id \in Addressable("payment_tracking"), s \in PaymentStatuses :
            UpdatePaymentStatus(id, s, 0)

SpecTimeline == Init /\ [][NextTimeline]_vars

\* C21 (as claimed): every result of the timeline query for a PR is ordered by
\* changed_at ascending and lists the entries in the order in which they were
\* appended, the two entries of a cascade and the entries of one second
\* included.
C21_TimelineInAppendOrder ==
    \A pr \in Ids(db, "pr_tracking") :
        \A tl \in timeline(db, pr) :
            \A a, b \in 1 .. Len(tl) :
                a < b =>
                    /\ db.status_history[tl[a]].changed_at
                           <= db.status_history[tl[b]].changed_at
                    /\ tl[a] < tl[b]

\* The statuses of the payments that store d holds for PR pr.
C22_PaymentStatusesOf(d, pr) ==
    {d.payment_tracking[p].status :
        p \in {q \in Ids(d, "payment_tracking") : d.payment_tracking[q].pr_id = pr}}

\* C22 (as claimed): the old_status of every entry a completed run appends is
\* the status its entity had in the store the run found, and null only when
\* the entity was not there: the entry of a direct update, the cascade entry of
\* the PR or of the advance (the target's own status), both entries of Save
\* Payment (the payment's status when the PR already has a payment), the OA
\* entry of Save Liquidation Record, and the entries of the creating forms.
C22_OldStatusIsPriorStatus ==
    [][last'.ok =>
        LET op == last'.op
            id == last'.id
            n == Len(Appended)
        IN  /\ op \in {"UpdatePRStatus", "UpdatePaymentStatus", "UpdateDSAStatus",
                       "UpdateOAStatus"} =>
                  n >= 1 /\ Appended[1].old_status = StatusOf(db, TableOf(op), id)
            /\ (op = "UpdatePaymentStatus" /\ n >= 2) =>
                  Appended[2].old_status = StatusOf(db, "pr_tracking", PrIdOf(db, id))
            /\ op = "UpdateLiquidationStatus" =>
                  /\ n = 2
                  /\ \E l \in LiquidationsOf(db, id) :
                        Appended[1].old_status = db.operational_liquidations[l].status
                  /\ Appended[2].old_status = StatusOf(db, "operational_advances", id)
            /\ op = "SavePayment" =>
                  /\ n >= 1
                  /\ IF C22_PaymentStatusesOf(db, id) = {}
                     THEN Appended[1].old_status = NULL
                     ELSE Appended[1].old_status \in C22_PaymentStatusesOf(db, id)
                  /\ n >= 2 => Appended[2].old_status = StatusOf(db, "pr_tracking", id)
            /\ op = "SaveLiquidationRecord" =>
                  \A i \in 1 .. n :
                      Appended[i].record_type = "OA" =>
                          Appended[i].old_status = StatusOf(db, "operational_advances", id)
            /\ op \in {"SubmitPR", "SaveDSAPayment", "SaveOperationalAdvance"} =>
                  \A i \in 1 .. n : Appended[i].old_status = NULL]_vars

\* The rows, as <<table, id>>, whose status a completed run of op writes: the
\* rows a status update addresses, the rows the run creates, the payment and
\* the PR of Save Payment (lines 908-938), the advance that Save Liquidation
\* Record closes (line 1127).
C23_Written(op, id, s) ==
    IF op \in StatusUpdates THEN StatusWrites(op, id, s)
    ELSE IF op = "SavePayment"
    THEN {<<"payment_tracking", p>> :
              p \in {q \in Ids(db', "payment_tracking") :
                        db'.payment_tracking[q].pr_id = id}}
         \cup (IF s = "Completed" THEN {<<"pr_tracking", id>>} ELSE {})
    ELSE IF op = "SaveLiquidationRecord"
    THEN {<<"operational_liquidations", l>> :
              l \in Ids(db', "operational_liquidations")
                     \ Ids(db, "operational_liquidations")}
         \cup (IF s \in {"Completed", "Paid"}
               THEN {<<"operational_advances", id>>} ELSE {})
    ELSE UNION {{<<t, r>> : r \in Ids(db', t) \ Ids(db, t)} : t \in EntityTables}

\* C23 (as claimed): every entry a completed run appends is tagged with the
\* type of a record whose status the run writes and carries that record's own
\* id as text: a Payment entry the payment's id, a Liquidation entry the
\* liquidation's id, a DSA entry the DSA payment's id, a cascade entry the
\* target's type and id.
C23_EntryNamesItsOwnRecord ==
    [][last'.ok =>
        \A i \in 1 .. Len(Appended) :
            \E w \in C23_Written(last'.op, last'.id, last'.status) :
                /\ Appended[i].record_type = TagOf(w[1])
                /\ Appended[i].record_id = ToString(w[2])]_vars

\* The entity rows, as <<table, id>>, that a step creates or leaves with
\* another status.
C24_Changed ==
    UNION {{<<t, r>> : r \in {x \in Ids(db', t) :
                                 \/ x \notin Ids(db, t)
                                 \/ db[t][x].status # db'[t][x].status}} :
           t \in EntityTables}

\* The operations that change a status and may cascade.
C24_Operations == StatusUpdates \cup {"SavePayment", "SaveLiquidationRecord"}

\* C24 (as claimed): cascades are one level deep: a run of a status update, of
\* Save Payment or of Save Liquidation Record creates or changes the status of
\* at most two records, the primary one and its cascade target, which are of
\* different types, and appends at most two entries.
C24_CascadesOneLevelDeep ==
    [][last'.op \in C24_Operations =>
          /\ Cardinality(C24_Changed) <= 2
          /\ \A v, w \in C24_Changed : v[1] = w[1] => v = w
          /\ Len(Appended) <= 2]_vars

\* The dashboard updates of the types that have no cascade rule.
C25_DirectUpdates == {"UpdatePRStatus", "UpdateDSAStatus", "UpdateOAStatus"}

C26_States(t) ==
    IF t = "pr_tracking" THEN {"Submitted", "In Process", "Completed"}
    ELSE IF t = "payment_tracking" THEN {"Pending", "In Process", "Completed"}
    ELSE {"Pending", "In Process", "Completed", "Paid"}

C27_EntriesOf(d, t, r) ==
    {i \in 1 .. Len(d.status_history) :
        /\ d.status_history[i].record_type = TagOf(t)
        /\ d.status_history[i].record_id = ToString(r)}

\* C27 (as claimed): in every state of the store, every PR, payment, DSA
\* payment, advance and liquidation has an entry with its type tag and its own
\* id, and the latest such entry has the row's status as new_status.
C27_LedgerAgreesWithState ==
    \A t \in EntityTables :
        \A r \in Ids(db, t) :
            /\ C27_EntriesOf(db, t, r) # {}
            /\ db.status_history[Max(C27_EntriesOf(db, t, r))].new_status = db[t][r].status

\* C28 (as claimed): every entry that a completed run adds to the timeline of
\* a PR is tagged PR or Payment and records a status written to that PR or to
\* a payment linked to it: the timeline never shows the entry of another
\* payment, of a DSA payment, of an advance or of a liquidation that has the
\* same number.
C28_TimelineOfThePROnly ==
    [][last'.ok =>
        \A pr \in Ids(db', "pr_tracking") :
            \A i \in TimelineRows(db', pr) \ TimelineRows(db, pr) :
                /\ db'.status_history[i].record_type \in {"PR", "Payment"}
                /\ \E w \in C23_Written(last'.op, last'.id, last'.status) :
                      \/ w = <<"pr_tracking", pr>>
                      \/ /\ w[1] = "payment_tracking"
                         /\ w[2] \in Ids(db', "payment_tracking")
                         /\ db'.payment_tracking[w[2]].pr_id = pr]_vars

\* C29 (as claimed): a completed dashboard liquidation update sets the status
\* of one liquidation of the selected advance and of no other liquidation, and
\* appends exactly one entry tagged Liquidation, with that liquidation's old
\* status and the new one.
C29_OneLiquidationUpdated ==
    [][Ran("UpdateLiquidationStatus") =>
        \E l \in LiquidationsOf(db, last'.id) :
            /\ db'.operational_liquidations =
                   [db.operational_liquidations EXCEPT ![l].status = last'.status]
            /\ Cardinality({i \in 1 .. Len(Appended) :
                               Appended[i].record_type = "Liquidation"}) = 1
            /\ \A i \in 1 .. Len(Appended) :
                  Appended[i].record_type = "Liquidation" =>
                      /\ Appended[i].old_status = db.operational_liquidations[l].status
                      /\ Appended[i].new_status = last'.status]_vars

\* ------------------------------------------- session restore and timeout
\* Lines 201-206: the page is loaded anew (a reload, a new tab): the script
\* runs with an empty st.session_state and takes user and role from the
\* cookies, as they are; no handler runs.
Reload ==
    /\ session' = [user |-> cookies.user, role |-> cookies.role]
    /\ db' = Connect
    /\ conn' = Connect
    /\ last' = [op |-> "Reload", id |-> 0, status |-> NULL, ok |-> TRUE]
    /\ UNCHANGED <<cookies, CURRENT_TIMESTAMP>>

\* Line 209, `if st.session_state["user"]:` -- a user name that is not empty.
Truthy(user) == user \notin {NULL, ""}

\* Lines 209-218: the run finds the user inactive for more than
\* SESSION_TIMEOUT, clears session and cookies and stops at the login page.
SessionTimeout ==
    /\ Truthy(session.user)
    /\ session' = NoSession
    /\ cookies' = ClearedCookies
    /\ db' = Connect
    /\ conn' = Connect
    /\ last' = [op |-> "SessionTimeout", id |-> 0, status |-> NULL, ok |-> TRUE]
    /\ UNCHANGED CURRENT_TIMESTAMP

NextSession == Next \/ Reload \/ SessionTimeout

\* The workflow in a browser whose pages are reloaded and whose sessions expire.
SpecSession == Init /\ [][NextSession]_vars

\* C30 (as claimed): a run writes an entity row or a ledger entry only while a
\* user is logged in, not before a login, after a logout or after a timeout:
\* the session holds a user's name that is not empty, and every entry the run
\* appends carries that name as changed_by.
C30_WritesOnlyWhenLoggedIn ==
    [][/\ (\/ \E t \in EntityTables : db'[t] # db[t]
           \/ db'.status_history # db.status_history) =>
              /\ session.user \notin {NULL, ""}
              /\ \E u \in Ids(db, "users") : db.users[u].username = session.user
       /\ \A i \in 1 .. Len(Appended) :
              /\ Appended[i].changed_by = session.user
              /\ Appended[i].changed_by \notin {NULL, ""}]_vars
====
